---- MODULE Spec2Model ----
(***************************************************************************)
(* Model of the RAG pipeline of examples/rag-pipeline/rag_demo.py:         *)
(* DocumentChunker, EmbeddingProvider and RAGPipeline.                     *)
(*                                                                         *)
(* A Python str is a sequence of one-character strings.  "NUL" stands for  *)
(* a control character that is not whitespace (\x00).                      *)
(***************************************************************************)
EXTENDS Integers, Sequences, FiniteSets, TLC

VARIABLES
    env,          \* the interpreter's environment: optional imports, API key
    rag_config,   \* the RAGConfig instance last constructed, or None
    chunker,      \* the DocumentChunker instance last constructed, or None
    embedder,     \* the EmbeddingProvider instance, or None
    db,           \* the records held by the KotaDB store, in insertion order
    exc,          \* exception propagated by the last call ("none" if it returned)
    ck,           \* the activation of DocumentChunker.chunk_document
    out,          \* the last RAGPipeline call: its arguments and what it returned
    arg           \* the arguments the caller of the chunker is going to pass

vars == <<env, rag_config, chunker, embedder, db, exc, ck, out, arg>>

\* Python's None (a record, so that it compares with the instances)
None == [none |-> TRUE]

(***************************************************************************)
(* Bounds of the exploration.                                              *)
(***************************************************************************)
MaxTextLen == 4     \* longest raw text handed to chunk_document
MaxChunkSize == 3   \* largest chunk_size / chunk_overlap explored
MaxIter == 4        \* most iterations of the chunking loop that are followed

(***************************************************************************)
(* Python str primitives.                                                  *)
(***************************************************************************)
Whitespace == {" ", "\n", "\t"}          \* characters matched by \s
ControlChars == {"\n", "\t", "NUL"}      \* characters matched by [\x00-\x1f\x7f]

Max(S) == CHOOSE x \in S : \A y \in S : y <= x
Min(S) == CHOOSE x \in S : \A y \in S : x <= y

\* s[a:b] with Python's treatment of negative and out-of-range indices
Slice(s, a, b) ==
    LET n  == Len(s)
        a1 == IF a < 0 THEN Max({n + a, 0}) ELSE Min({a, n})
        b1 == IF b < 0 THEN Max({n + b, 0}) ELSE Min({b, n})
    IN  IF a1 >= b1 THEN <<>> ELSE SubSeq(s, a1 + 1, b1)

RECURSIVE LStrip(_)
LStrip(s) ==
    IF s # <<>> /\ Head(s) \in Whitespace THEN LStrip(Tail(s)) ELSE s

RECURSIVE RStrip(_)
RStrip(s) ==
    IF s # <<>> /\ s[Len(s)] \in Whitespace
    THEN RStrip(SubSeq(s, 1, Len(s) - 1))
    ELSE s

\* str.strip()
Strip(s) == RStrip(LStrip(s))

\* re.sub(r'\s+', ' ', s): the first character of every run of whitespace
\* becomes a space and the rest of the run goes
CollapseWhitespace(s) ==
    LET marked == [i \in 1..Len(s) |->
                      IF s[i] \notin Whitespace THEN s[i]
                      ELSE IF i > 1 /\ s[i - 1] \in Whitespace THEN "<in run>"
                      ELSE " "]
    IN  SelectSeq(marked, LAMBDA c : c # "<in run>")

\* re.sub(r'[\x00-\x1f\x7f]', '', s)
RemoveControl(s) == SelectSeq(s, LAMBDA c : c \notin ControlChars)

\* str.rfind(sub): highest index at which sub occurs, -1 if none
rfind(text, sub) ==
    LET at == {p \in 0..(Len(text) - Len(sub)) :
                   SubSeq(text, p + 1, p + Len(sub)) = sub}
    IN  IF at = {} THEN -1 ELSE Max(at)

(***************************************************************************)
(* DocumentChunker                                                         *)
(***************************************************************************)
clean_content(content) == Strip(RemoveControl(CollapseWhitespace(content)))

sentence_endings ==
    << <<".", " ">>, <<"!", " ">>, <<"?", " ">>,
       <<".", "\n">>, <<"!", "\n">>, <<"?", "\n">> >>

\* the for loop of _find_sentence_boundary from the i-th ending on;
\* pos > len(text) * 0.8 is 5 * pos > 4 * len(text)
RECURSIVE boundary_scan(_, _, _)
boundary_scan(text, i, best_pos) ==
    IF i > Len(sentence_endings) THEN best_pos
    ELSE LET ending == sentence_endings[i]
             pos    == rfind(text, ending)
         IN  boundary_scan(text, i + 1,
                 IF pos > best_pos /\ 5 * pos > 4 * Len(text)
                 THEN pos + Len(ending) - 1
                 ELSE best_pos)

find_sentence_boundary(text) == boundary_scan(text, 1, -1)

\* the metadata mapping of the caller; the early return hands it through
\* unchanged, the loop copies it and adds the chunk's index and offsets
CallerMetadata == [caller |-> TRUE]

\* the chunk returned when the cleaned content fits in one chunk
single_chunk(content) ==
    [content |-> content, metadata |-> CallerMetadata,
     chunk_index |-> 0, chunk_count |-> 1]

\* the chunk put in front of the list
add_chunk_front(chunks, chunk) == <<chunk>> \o chunks

\* chunks.append(...)
add_chunk(chunks, chunk) == Append(chunks, chunk)

\* a window one character longer than chunk_size
window_end_wide(self, start) == start + self.chunk_size + 1

\* "end = start + self.chunk_size"
window_end(self, start) == start + self.chunk_size

\* one iteration of the while loop of chunk_document
chunk_iter(self, st) ==
    LET content      == st.content
        start        == st.start
        end0         == window_end(self, start)
        sentence_end == find_sentence_boundary(Slice(content, start, end0))
        end          == IF end0 < Len(content) /\ sentence_end # -1
                        THEN start + sentence_end + 1
                        ELSE end0
        chunk_content == Strip(Slice(content, start, end))
        chunk == [content |-> chunk_content,
                  metadata |-> [caller |-> TRUE,
                                chunk_index |-> st.chunk_index,
                                start_char |-> start, end_char |-> end],
                  chunk_index |-> st.chunk_index,
                  chunk_count |-> 0]
    IN  [st EXCEPT !.chunks = IF chunk_content # <<>> THEN add_chunk(@, chunk) ELSE @,
                   !.start = end - self.overlap,
                   !.chunk_index = @ + 1]

\* "for chunk in chunks: chunk['chunk_count'] = len(chunks)"
update_chunk_counts(chunks) ==
    [i \in 1..Len(chunks) |-> [chunks[i] EXCEPT !.chunk_count = Len(chunks)]]

\* the state of chunk_document when it enters the loop
loop_entry(content) ==
    [content |-> content, start |-> 0, chunk_index |-> 0, chunks |-> <<>>]

\* chunk_document run to its return; Diverged when the loop has not ended
\* after `fuel` iterations.  The next start is a function of the start, and
\* the starts lie between -chunk_size and len(content), so a loop that has
\* not ended after len(content) + chunk_size + 1 iterations never ends.
Diverged == <<[diverged |-> TRUE]>>

RECURSIVE chunk_loop(_, _, _)
chunk_loop(self, st, fuel) ==
    IF ~(st.start < Len(st.content)) THEN update_chunk_counts(st.chunks)
    ELSE IF fuel = 0 THEN Diverged
    ELSE chunk_loop(self, chunk_iter(self, st), fuel - 1)

chunk_document(self, raw) ==
    LET content == clean_content(raw)
    IN  IF Len(content) <= self.chunk_size
        THEN <<single_chunk(content)>>
        ELSE chunk_loop(self, loop_entry(content),
                        Len(content) + self.chunk_size + 1)

(***************************************************************************)
(* The chunker on its own: configurations are constructed, a chunker is    *)
(* built from the configuration (RAGPipeline.__init__), and chunk_document *)
(* runs one loop iteration per step.                                       *)
(***************************************************************************)
ChunkAlphabet == {"a", ".", " ", "\n", "NUL"}

RECURSIVE StringsUpTo(_, _)
StringsUpTo(A, n) ==
    IF n = 0 THEN {<<>>}
    ELSE LET shorter == StringsUpTo(A, n - 1)
         IN  shorter \cup {Append(s, c) : s \in shorter, c \in A}

RawTexts == StringsUpTo(ChunkAlphabet, MaxTextLen)

\* values of the fields the chunker does not read
DefaultEnv == [HAS_OPENAI |-> FALSE, libs |-> "sklearn", api_key |-> FALSE]
Idle == [pc |-> "idle"]
NoCall == [op |-> "none"]

NoArgs == [none |-> TRUE]

\* RAGConfig(chunk_size=cs, chunk_overlap=ov, ...): the dataclass stores its
\* fields
new_RAGConfig(cs, ov, mcl, mr) ==
    [chunk_size |-> cs, chunk_overlap |-> ov,
     max_context_length |-> mcl, max_results |-> mr]

\* DocumentChunker(chunk_size, overlap)
new_DocumentChunker(chunk_size, overlap) ==
    [chunk_size |-> chunk_size, overlap |-> overlap]

NewRAGConfig ==
    /\ rag_config = None
    /\ rag_config' = new_RAGConfig(arg.chunk_size, arg.chunk_overlap,
                                   arg.max_context_length, arg.max_results)
    /\ exc' = "none"
    /\ UNCHANGED <<env, chunker, embedder, db, ck, out, arg>>

\* the chunker RAGPipeline.__init__ builds from the configuration
NewDocumentChunker ==
    /\ rag_config # None
    /\ chunker = None
    /\ chunker' = new_DocumentChunker(rag_config.chunk_size,
                                      rag_config.chunk_overlap)
    /\ exc' = "none"
    /\ UNCHANGED <<env, rag_config, embedder, db, ck, out, arg>>

\* the test with < in place of <=
fits_one_chunk_strict(self, content) == Len(content) < self.chunk_size

\* "if len(content) <= self.chunk_size"
fits_one_chunk(self, content) == Len(content) <= self.chunk_size

\* chunk_document up to its early return or its first loop test
ChunkCall ==
    /\ chunker # None
    /\ ck.pc = "idle"
    /\ LET content == clean_content(arg.raw)
       IN  ck' = IF fits_one_chunk(chunker, content)
                 THEN [pc |-> "done", ret |-> <<single_chunk(content)>>]
                 ELSE [pc |-> "loop", st |-> loop_entry(content)]
    /\ exc' = "none"
    /\ UNCHANGED <<env, rag_config, chunker, embedder, db, out, arg>>

\* one iteration of "while start < len(content)"
ChunkLoopStep ==
    /\ ck.pc = "loop"
    /\ ck.st.start < Len(ck.st.content)
    /\ ck.st.chunk_index < MaxIter
    /\ ck' = [ck EXCEPT !.st = chunk_iter(chunker, @)]
    /\ UNCHANGED <<env, rag_config, chunker, embedder, db, exc, out, arg>>

\* the loop test fails: back-fill chunk_count and return
ChunkReturn ==
    /\ ck.pc = "loop"
    /\ ~(ck.st.start < Len(ck.st.content))
    /\ ck' = [pc |-> "done", ret |-> update_chunk_counts(ck.st.chunks)]
    /\ UNCHANGED <<env, rag_config, chunker, embedder, db, exc, out, arg>>

ChunkSizes == 1..MaxChunkSize
Overlaps == 0..MaxChunkSize

\* the caller's arguments are drawn first; the calls then use them
InitChunk ==
    /\ env = DefaultEnv
    /\ rag_config = None
    /\ chunker = None
    /\ embedder = None
    /\ db = <<>>
    /\ exc = "none"
    /\ ck = Idle
    /\ out = NoCall
    /\ arg \in [raw : RawTexts, chunk_size : ChunkSizes, chunk_overlap : Overlaps,
                 max_context_length : {40}, max_results : {2}]

NextChunk ==
    \/ NewRAGConfig
    \/ NewDocumentChunker
    \/ ChunkCall
    \/ ChunkLoopStep
    \/ ChunkReturn

SpecChunk == InitChunk /\ [][NextChunk]_vars

(***************************************************************************)
(* Claims about the chunker.                                               *)
(***************************************************************************)

\* C4: a configuration with overlap >= chunk_size is rejected when it is
\* constructed: no RAGConfig and no DocumentChunker instance ever holds
\* overlap >= chunk_size.
C4_DegenerateConfigRejected ==
    /\ rag_config # None => rag_config.chunk_overlap < rag_config.chunk_size
    /\ chunker # None => chunker.overlap < chunker.chunk_size

\* C5: a text whose normalized length is at most chunk_size comes back as
\* exactly one chunk, chunk_index 0, chunk_count 1, content the normalized
\* text.
C5_ShortTextOneChunk ==
    (ck.pc = "done" /\ Len(clean_content(arg.raw)) <= chunker.chunk_size)
        => /\ Len(ck.ret) = 1
           /\ ck.ret[1].chunk_index = 0
           /\ ck.ret[1].chunk_count = 1
           /\ ck.ret[1].content = clean_content(arg.raw)

\* the early return acted on a text exactly chunk_size long, with an overlap
\* that would have produced a second chunk in the loop
C5_Witness ==
    /\ ck.pc = "done"
    /\ Len(clean_content(arg.raw)) = chunker.chunk_size
    /\ chunker.overlap > 0
    /\ chunker.overlap < chunker.chunk_size
    /\ clean_content(arg.raw) # arg.raw
    /\ Len(ck.ret) = 1

(***************************************************************************)
(* EmbeddingProvider                                                       *)
(*                                                                         *)
(* A vector is a sequence of integers.  EmbedDim stands for the 384        *)
(* components of a mock vector; a vector of the remote service has one     *)
(* component more, so that the two lengths differ as 384 and 1536 do.      *)
(***************************************************************************)
EmbedDim == 2

HAS_SKLEARN(e) == e.libs = "sklearn"    \* numpy and scikit-learn imported
HAS_NUMPY(e) == e.libs # "none"         \* the name np is bound

\* EmbeddingProvider(provider)
new_EmbeddingProvider(e, provider) ==
    [provider |-> provider, is_fitted |-> FALSE, vocabulary |-> <<>>]

UpperCase == <<"A", "B", "C", "D", "E", "F", "G", "H", "I", "J", "K", "L", "M", "N", "O", "P", "Q", "R", "S", "T", "U", "V", "W", "X", "Y", "Z">>
LowerCase == <<"a", "b", "c", "d", "e", "f", "g", "h", "i", "j", "k", "l", "m", "n", "o", "p", "q", "r", "s", "t", "u", "v", "w", "x", "y", "z">>

\* str.lower() on one character
LowerOf == [i \in 1..Len(UpperCase) |-> LowerCase[i]]
UpperIndex == [c \in {UpperCase[i] : i \in 1..Len(UpperCase)} |->
                  CHOOSE i \in 1..Len(UpperCase) : UpperCase[i] = c]
LowerIndex == [c \in {LowerCase[i] : i \in 1..Len(LowerCase)} |->
                  CHOOSE i \in 1..Len(LowerCase) : LowerCase[i] = c]

LowerChar(c) == IF c \in DOMAIN UpperIndex THEN LowerOf[UpperIndex[c]] ELSE c

Lower(s) == [i \in 1..Len(s) |-> LowerChar(s[i])]

\* a code for each character, for the hash
CharCode(c) ==
    IF LowerChar(c) \in DOMAIN LowerIndex THEN LowerIndex[LowerChar(c)] ELSE 0

\* hash(text): a fixed function of the characters and their positions
RECURSIVE Hash(_)
Hash(text) ==
    IF text = <<>> THEN 0
    ELSE (5 * Hash(SubSeq(text, 1, Len(text) - 1)) + CharCode(text[Len(text)])) % 64

\* np.random.normal(0, 1, 384) after np.random.seed(h): a vector fixed by h
\* with no zero component
SeededVector(h, dim) ==
    [i \in 1..dim |-> IF (h \div (2 ^ (i - 1))) % 2 = 0 THEN 1 ELSE -1]

ZeroVector(dim) == [i \in 1..dim |-> 0]

\* the result of a call: it raised, or it returned value
Returned(v) == [raised |-> FALSE, value |-> v]
Raised(kind) == [raised |-> TRUE, value |-> kind]

\* _mock_embed: np.random.seed raises NameError when numpy is not imported
mock_embed(e, text) ==
    IF ~HAS_NUMPY(e) THEN Raised("NameError")
    ELSE IF HAS_SKLEARN(e) THEN Returned(SeededVector(Hash(text), EmbedDim))
    ELSE Returned(ZeroVector(EmbedDim))

\* the vector the remote service answers with
RemoteVector(text) == SeededVector(Hash(text) + 1, EmbedDim + 1)

\* _openai_embed: any failure of the remote call falls back to _mock_embed
openai_embed(e, text, api_ok) ==
    IF api_ok THEN Returned(RemoteVector(text)) ELSE mock_embed(e, text)

\* str.split(): the whitespace-separated words
RECURSIVE Split(_)
Split(s) ==
    LET t == LStrip(s)
    IN  IF t = <<>> THEN <<>>
        ELSE LET stops == {i \in 1..Len(t) : t[i] \in Whitespace}
                 n == IF stops = {} THEN Len(t) ELSE Min(stops) - 1
             IN  <<SubSeq(t, 1, n)>> \o Split(SubSeq(t, n + 1, Len(t)))

\* vectorizer.transform([text]): one weight per term of the fitted vocabulary
tfidf_transform(self, text) ==
    LET words == Split(Lower(text))
    IN  [i \in 1..Len(self.vocabulary) |->
            Cardinality({k \in 1..Len(words) : words[k] = self.vocabulary[i]})]

\* a single-text call that fits the vectorizer on its own text
tfidf_embed_fitting(e, self, text) ==
    Returned(tfidf_transform([self EXCEPT !.vocabulary = Split(Lower(text))],
                             text))

\* the single-text call that never consults the fitted vectorizer
tfidf_embed_unfitted(e, self, text) == mock_embed(e, text)

\* _tfidf_embed
tfidf_embed(e, self, text) ==
    IF ~self.is_fitted THEN mock_embed(e, text)
    ELSE Returned(tfidf_transform(self, text))

\* embed_text
embed_text(e, self, text, api_ok) ==
    IF self.provider = "openai" /\ e.HAS_OPENAI THEN openai_embed(e, text, api_ok)
    ELSE IF self.provider = "tfidf" /\ HAS_SKLEARN(e) THEN tfidf_embed(e, self, text)
    ELSE mock_embed(e, text)

(***************************************************************************)
(* Cosine similarity, in hundredths.                                       *)
(***************************************************************************)
RECURSIVE SumTo(_, _)
SumTo(f, n) == IF n = 0 THEN 0 ELSE f[n] + SumTo(f, n - 1)

\* sum(a * b for a, b in zip(vec1, vec2))
Dot(v1, v2) ==
    LET n == Min({Len(v1), Len(v2)})
    IN  SumTo([i \in 1..n |-> v1[i] * v2[i]], n)

SumSquares(v) == SumTo([i \in 1..Len(v) |-> v[i] * v[i]], Len(v))

\* dot / (magnitude1 * magnitude2), rounded down to hundredths
Cosine100(dot, ss1, ss2) ==
    LET q == (dot * dot * 100 * 100) \div (ss1 * ss2)
        r == CHOOSE x \in 0..100 : x * x <= q /\ q < (x + 1) * (x + 1)
    IN  IF dot < 0 THEN -r ELSE r

\* _cosine_similarity: sklearn's cosine_similarity raises ValueError for
\* vectors of different lengths; the plain branch zips them
cosine_similarity(e, vec1, vec2) ==
    IF HAS_SKLEARN(e) /\ Len(vec1) # Len(vec2) THEN Raised("ValueError")
    ELSE IF SumSquares(vec1) = 0 \/ SumSquares(vec2) = 0 THEN Returned(0)
    ELSE Returned(Cosine100(Dot(vec1, vec2), SumSquares(vec1), SumSquares(vec2)))

(***************************************************************************)
(* The KotaDB store.  A record is [id, title, content, tags].  A tag is    *)
(* [prefix, name, payload]: "knowledge-base" is prefix "" and name         *)
(* "knowledge-base"; "source:x" is prefix "source:" and name "x";          *)
(* "metadata:<json>" is prefix "metadata:" with the JSON text as payload.  *)
(* A JSON text is [parses, value].                                         *)
(***************************************************************************)
NoPayload == [parses |-> FALSE]

PlainTag(name) == [prefix |-> "", name |-> name, payload |-> NoPayload]
SourceTag(source) == [prefix |-> "source:", name |-> source, payload |-> NoPayload]
MetadataTag(json) == [prefix |-> "metadata:", name |-> "", payload |-> json]

\* json.dumps(value)
json_dumps(value) == [parses |-> TRUE, value |-> value]

\* json.loads(text): raises on text that is not JSON
json_loads(text) ==
    IF text.parses THEN Returned(text.value) ELSE Raised("JSONDecodeError")

\* a field the store's answer leaves out, and a field that holds no text
Missing == <<"<missing>">>
NonText == <<"<not a str>">>
Unhashable == <<"<a list>">>

HasTag(doc, name) ==
    \E i \in 1..Len(doc.tags) : doc.tags[i].prefix = "" /\ doc.tags[i].name = name

\* the text occurs in the record's content
ContainsText(doc, text) ==
    /\ doc.content \notin {Missing, NonText}
    /\ \E p \in 0..(Len(doc.content) - Len(text)) :
           SubSeq(doc.content, p + 1, p + Len(text)) = text

NoTextFilter == <<"<no text filter>">>

\* the 'documents' of the store's answer to a query: the records that carry
\* every tag of the filter and contain the text, at most `limit` of them
store_query(store, tag_filters, text, limit) ==
    LET hits == SelectSeq(store, LAMBDA doc :
                    /\ \A t \in tag_filters : HasTag(doc, t)
                    /\ text = NoTextFilter \/ ContainsText(doc, text))
    IN  SubSeq(hits, 1, Min({Len(hits), limit}))

\* db.insert_with_builder: the record is stored and its new id returned
store_insert(store, doc) == Append(store, [doc EXCEPT !.id = Len(store) + 1])
last_id(store) == store[Len(store)].id

CandidateLimit == 1000
SentinelScore == 50        \* 0.5, in hundredths

(***************************************************************************)
(* RAGPipeline: retrieval                                                  *)
(***************************************************************************)
\* the tags of a record that start with 'metadata:'
metadata_tags(chunk) == SelectSeq(chunk.tags, LAMBDA tag : tag.prefix = "metadata:")

\* metadata.get('embedding', [])
get_embedding(metadata) ==
    IF "embedding" \in DOMAIN metadata THEN metadata.embedding ELSE <<>>

\* the body of the loop over the candidates: the entries (none or one) this
\* candidate adds to `similarities`; an exception skips the candidate
score_chunk(e, query_embedding, chunk) ==
    IF metadata_tags(chunk) = <<>> THEN <<>>
    ELSE LET parsed == json_loads(metadata_tags(chunk)[1].payload)
         IN  IF parsed.raised THEN <<>>
             ELSE LET chunk_embedding == get_embedding(parsed.value)
                      similarity == cosine_similarity(e, query_embedding,
                                                      chunk_embedding)
                  IN  IF chunk_embedding = <<>> THEN <<>>
                      ELSE IF similarity.raised THEN <<>>
                      ELSE <<[document |-> chunk,
                              similarity |-> similarity.value,
                              metadata |-> parsed.value]>>

RECURSIVE score_chunks(_, _, _)
score_chunks(e, query_embedding, chunks) ==
    IF chunks = <<>> THEN <<>>
    ELSE score_chunk(e, query_embedding, Head(chunks))
             \o score_chunks(e, query_embedding, Tail(chunks))

\* an unstable sort: x goes before the items of equal similarity
insert_position_unstable(sorted, x) ==
    Cardinality({i \in 1..Len(sorted) : sorted[i].similarity > x.similarity})

\* where a stable sort on the key, reverse=True, puts x among the sorted
\* items: after every item whose similarity is at least x's
insert_position(sorted, x) ==
    Cardinality({i \in 1..Len(sorted) : sorted[i].similarity >= x.similarity})

\* similarities.sort(key=lambda x: x['similarity'], reverse=True)
RECURSIVE sort_by_similarity(_)
sort_by_similarity(items) ==
    IF items = <<>> THEN <<>>
    ELSE LET n      == Len(items)
             sorted == sort_by_similarity(SubSeq(items, 1, n - 1))
             k      == insert_position(sorted, items[n])
         IN  SubSeq(sorted, 1, k) \o <<items[n]>> \o SubSeq(sorted, k + 1, n - 1)

\* similarities[:max_results]
top_results(similarities, max_results) == Slice(similarities, 0, max_results)

\* db.query_with_builder(...).get('documents', []): the call raises when the
\* store fails
query_documents(store, tag_filters, text, limit, ok) ==
    IF ok THEN Returned(store_query(store, tag_filters, text, limit))
    ELSE Raised("KotaDBError")

\* _fallback_text_search without its try/except
fallback_text_search_unguarded(store, query, max_results, fallback_ok) ==
    LET chunks == query_documents(store, {"knowledge-base"}, query,
                                  max_results, fallback_ok)
    IN  IF chunks.raised THEN chunks
        ELSE Returned([i \in 1..Len(chunks.value) |->
                 [document |-> chunks.value[i], similarity |-> SentinelScore]])

\* _fallback_text_search: an exception of the query is caught, [] returned
fallback_text_search(store, query, max_results, fallback_ok) ==
    LET chunks == query_documents(store, {"knowledge-base"}, query,
                                  max_results, fallback_ok)
    IN  IF chunks.raised THEN Returned(<<>>)
        ELSE Returned([i \in 1..Len(chunks.value) |->
                 [document |-> chunks.value[i], similarity |-> SentinelScore]])

\* "max_results = max_results or self.config.max_results"
effective_max_results(config, max_results) ==
    IF max_results = 0 THEN config.max_results ELSE max_results

\* what semantic_search does when every candidate has been looked at
rank_candidates(e, query_embedding, chunks, max_results) ==
    top_results(sort_by_similarity(score_chunks(e, query_embedding, chunks)),
                max_results)

\* an except branch that gives up: no lexical search, an empty result
semantic_search_error_empty(store, query, max_results, fallback_ok) ==
    Returned(<<>>)

\* the except branch of semantic_search
semantic_search_error(store, query, max_results, fallback_ok) ==
    fallback_text_search(store, query, max_results, fallback_ok)

\* semantic_search.  max_results = 0 stands for None.  io says which of
\* the calls to the outside succeed: the remote embedding (api_ok), the
\* candidate query (query_ok) and the query of the fallback (fallback_ok).
\* The result is the outcome of the call and whether the except branch ran.
semantic_search(e, self, store, query, max_results_arg, io) ==
    LET max_results     == effective_max_results(self.config, max_results_arg)
        query_embedding == embed_text(e, self.embedder, query, io.api_ok)
        chunks == query_documents(store, {"knowledge-base", "chunk"},
                                  NoTextFilter, CandidateLimit, io.query_ok)
    IN  IF query_embedding.raised \/ chunks.raised
        THEN [fell_back |-> TRUE,
              call |-> semantic_search_error(store, query, max_results,
                                             io.fallback_ok)]
        ELSE [fell_back |-> FALSE,
              call |-> IF chunks.value = <<>> THEN Returned(<<>>)
                       ELSE Returned(rank_candidates(e, query_embedding.value,
                                                     chunks.value, max_results))]

(***************************************************************************)
(* RAGPipeline: answering                                                  *)
(***************************************************************************)
InsufficientMessage ==
    <<"I don't have enough information in the knowledge base to answer this question.">>
UnanswerableMessage ==
    <<"The knowledge base contains related information, but I cannot generate a specific answer without AI capabilities.">>
AnswerLabel == <<"Based on the knowledge base: ">>

SentenceEnders == {".", "!", "?"}
MinSentenceLength == 10
ContextPartsLimit == 3

\* re.split(r'[.!?]+', context): the pieces between the runs of enders
RECURSIVE split_sentences(_)
split_sentences(context) ==
    LET stops == {i \in 1..Len(context) : context[i] \in SentenceEnders}
    IN  IF stops = {} THEN <<context>>
        ELSE LET first == Min(stops)
                 after == {i \in first..Len(context) :
                               context[i] \notin SentenceEnders}
                 next  == IF after = {} THEN Len(context) + 1 ELSE Min(after)
             IN  <<SubSeq(context, 1, first - 1)>>
                     \o split_sentences(SubSeq(context, next, Len(context)))

\* set(s.lower().split())
WordSet(s) ==
    LET words == Split(Lower(s))
    IN  {words[i] : i \in 1..Len(words)}

\* len(question_words.intersection(sentence_words))
word_overlap(question, sentence) ==
    Cardinality(WordSet(question) \cap WordSet(sentence))

\* the loop without its length test
too_short_never(sentence) == FALSE

\* "if len(sentence) < 10: continue"
too_short(sentence) == Len(sentence) < MinSentenceLength

\* the loop over the sentences: the (sentence, overlap) pairs kept
RECURSIVE best_sentences(_, _)
best_sentences(question, sentences) ==
    IF sentences = <<>> THEN <<>>
    ELSE LET sentence == Strip(Head(sentences))
             overlap  == word_overlap(question, sentence)
             rest     == best_sentences(question, Tail(sentences))
         IN  IF too_short(sentence) THEN rest
             ELSE IF overlap > 0
                  THEN <<[sentence |-> sentence, overlap |-> overlap]>> \o rest
                  ELSE rest

\* best_sentences.sort(key=lambda x: x[1], reverse=True); best_sentences[0]:
\* the first pair of the largest overlap
first_best(pairs) ==
    pairs[Min({i \in 1..Len(pairs) :
                  \A j \in 1..Len(pairs) : pairs[j].overlap <= pairs[i].overlap})]

\* the test for an empty context without its strip()
no_context_unstripped(context) == context = <<>>

\* "if not context.strip()"
no_context(context) == Strip(context) = <<>>

\* _generate_fallback_answer
generate_fallback_answer(question, context) ==
    IF no_context(context) THEN InsufficientMessage
    ELSE LET pairs == best_sentences(question, split_sentences(context))
         IN  IF pairs # <<>>
             THEN AnswerLabel \o first_best(pairs).sentence
             ELSE UnanswerableMessage

\* the text the generative backend answers with
BackendAnswer == <<"<completion>">>

\* a handler that answers with nothing when the call fails
generate_openai_answer_no_fallback(question, context, backend_ok) ==
    IF backend_ok THEN Strip(BackendAnswer) ELSE <<>>

\* _generate_openai_answer: a failure of the call falls back
generate_openai_answer(question, context, backend_ok) ==
    IF backend_ok THEN Strip(BackendAnswer)
    ELSE generate_fallback_answer(question, context)

\* doc.get('content', '') and doc.get('title', 'Unknown')
get_content(doc) == IF doc.content = Missing THEN <<>> ELSE doc.content
get_title(doc) == IF doc.title = Missing THEN <<"U", "n", "k", "n", "o", "w", "n">> ELSE doc.title

\* f"From '{title}':\n{content}"
context_part(title, content) == <<"F", "r", "o", "m", " ", "'">> \o title \o <<"'", ":", "\n">> \o content

\* the loop of generate_answer over context_docs from the i-th on; .strip()
\* on a content that is no str raises AttributeError
RECURSIVE collect_context(_, _, _, _)
collect_context(context_docs, i, context_parts, sources) ==
    IF i > Len(context_docs)
    THEN Returned([context_parts |-> context_parts, sources |-> sources])
    ELSE LET doc     == context_docs[i].document
             content == Strip(get_content(doc))
             title   == get_title(doc)
         IN  IF get_content(doc) = NonText THEN Raised("AttributeError")
             ELSE IF content # <<>>
                  THEN collect_context(context_docs, i + 1,
                           Append(context_parts, context_part(title, content)),
                           Append(sources, title))
                  ELSE collect_context(context_docs, i + 1, context_parts, sources)

\* "\n\n".join(parts)
RECURSIVE join_parts(_)
join_parts(parts) ==
    IF parts = <<>> THEN <<>>
    ELSE IF Len(parts) = 1 THEN parts[1]
    ELSE parts[1] \o <<"\n", "\n">> \o join_parts(Tail(parts))

\* context_parts[:3]
included_parts(context_parts) == Slice(context_parts, 0, ContextPartsLimit)

\* the titles generate_answer reports: one per entry of `sources`
reported_titles(collected) ==
    {collected.sources[i] : i \in 1..Len(collected.sources)}

\* generate_answer with context_docs given; list(set(sources)) raises
\* TypeError on a title that cannot be hashed
generate_answer(e, self, question, context_docs, backend_ok) ==
    LET collected == collect_context(context_docs, 1, <<>>, <<>>)
        context   == join_parts(included_parts(collected.value.context_parts))
        answer    == IF e.HAS_OPENAI /\ e.api_key
                     THEN generate_openai_answer(question, context, backend_ok)
                     ELSE generate_fallback_answer(question, context)
    IN  IF collected.raised THEN collected
        ELSE IF Unhashable \in reported_titles(collected.value)
             THEN Raised("TypeError")
        ELSE Returned([answer |-> answer,
                       context_used |-> context,
                       sources |-> reported_titles(collected.value),
                       context_docs_count |-> Len(context_docs)])

\* ask_question: semantic_search with the configured max_results, piped into
\* generate_answer
ask_question(e, self, store, question, io) ==
    LET found == semantic_search(e, self, store, question, 0, io).call
    IN  IF found.raised THEN found
        ELSE generate_answer(e, self, question, found.value, io.backend_ok)

(***************************************************************************)
(* RAGPipeline                                                             *)
(***************************************************************************)
\* RAGPipeline(kotadb_client, config)
new_RAGPipeline(e, config) ==
    [config |-> config,
     chunker |-> new_DocumentChunker(config.chunk_size, config.chunk_overlap),
     embedder |-> new_EmbeddingProvider(e, IF e.HAS_OPENAI THEN "openai" ELSE "tfidf")]

\* the pipeline instance of the current state
pipeline == [config |-> rag_config, chunker |-> chunker, embedder |-> embedder]

\* the exception a call propagated, "none" when it returned
propagated(call) == IF call.raised THEN call.value ELSE "none"

(***************************************************************************)
(* Retrieval and question answering over a store in any condition: the     *)
(* environment, the configuration, the records the store holds and the     *)
(* arguments are drawn first, then one call is made.                       *)
(***************************************************************************)
MaxStore == 2       \* most records of a store that is searched; ingestion goes on below it

Environments ==
    { [HAS_OPENAI |-> FALSE, libs |-> "sklearn", api_key |-> FALSE],
      [HAS_OPENAI |-> TRUE,  libs |-> "sklearn", api_key |-> TRUE],
      [HAS_OPENAI |-> TRUE,  libs |-> "numpy",   api_key |-> FALSE],
      [HAS_OPENAI |-> FALSE, libs |-> "numpy",   api_key |-> FALSE],
      [HAS_OPENAI |-> FALSE, libs |-> "none",    api_key |-> FALSE],
      [HAS_OPENAI |-> TRUE,  libs |-> "none",    api_key |-> TRUE] }

KnowledgeTags == <<PlainTag("knowledge-base"), PlainTag("chunk")>>

StoredRecord(title, content, extra_tags) ==
    [id |-> 0, title |-> title, content |-> content,
     tags |-> KnowledgeTags \o extra_tags]

WithEmbedding(v) == <<MetadataTag(json_dumps([embedding |-> v]))>>

\* records a store can hold: written by ingestion with either embedding
\* length, or by another client of the store
RecordPool ==
    { StoredRecord(<<"T", "1">>, <<"a", "a", " ", "b", "b", " ", "c", "c">>, WithEmbedding(SeededVector(0, EmbedDim))),
      StoredRecord(<<"T", "2">>, <<"b", "b", " ", "d", "d">>, WithEmbedding(SeededVector(1, EmbedDim))),
      StoredRecord(<<"T", "1">>, <<"a", "a">>, WithEmbedding(SeededVector(0, EmbedDim + 1))),
      StoredRecord(<<"T", "3">>, <<"a", "a", " ", "d", "d">>, <<>>),
      StoredRecord(<<"T", "4">>, <<"a", "a">>, <<MetadataTag(NoPayload)>>),
      StoredRecord(Unhashable, <<"b", "b">>, WithEmbedding(<<>>)),
      StoredRecord(Missing, NonText, WithEmbedding(ZeroVector(EmbedDim))),
      [StoredRecord(<<"T", "5">>, <<"b", "b">>, <<>>)
           EXCEPT !.tags = <<PlainTag("knowledge-base")>>] }

RECURSIVE SeqsUpTo(_, _)
SeqsUpTo(S, n) ==
    IF n = 0 THEN {<<>>}
    ELSE LET shorter == SeqsUpTo(S, n - 1)
         IN  shorter \cup {Append(s, x) : s \in shorter, x \in S}

\* the store gives each record its id when it is inserted
WithIds(records) == [i \in 1..Len(records) |-> [records[i] EXCEPT !.id = i]]

Queries == {<<"a", "a">>, <<"b", "b">>}
MaxResultsArgs == {0, 1, 2}

IoOutcomes == [api_ok : BOOLEAN, query_ok : BOOLEAN, fallback_ok : BOOLEAN,
               backend_ok : BOOLEAN]

\* the outcomes the environment allows: without the openai module there is
\* no remote call to succeed
IoFor(e) ==
    {io \in IoOutcomes : /\ io.api_ok => e.HAS_OPENAI
                         /\ io.backend_ok => (e.HAS_OPENAI /\ e.api_key)}

SearchConfigs == {new_RAGConfig(2, 1, 20, 2)}

InitSearch ==
    /\ env \in Environments
    /\ rag_config \in SearchConfigs
    /\ chunker = new_RAGPipeline(env, rag_config).chunker
    /\ embedder = new_RAGPipeline(env, rag_config).embedder
    /\ db \in {WithIds(s) : s \in SeqsUpTo(RecordPool, MaxStore)}
    /\ exc = "none"
    /\ ck = Idle
    /\ out = NoCall
    /\ arg \in [query : Queries, max_results : MaxResultsArgs]

SemanticSearch ==
    /\ out = NoCall
    /\ \E io \in IoFor(env) :
        /\ ~io.backend_ok
        /\ LET r == semantic_search(env, pipeline, db, arg.query,
                                    arg.max_results, io)
           IN  /\ out' = [op |-> "semantic_search", io |-> io,
                          fell_back |-> r.fell_back, ret |-> r.call.value]
               /\ exc' = propagated(r.call)
    /\ UNCHANGED <<env, rag_config, chunker, embedder, db, ck, arg>>

AskQuestion ==
    /\ out = NoCall
    /\ arg.max_results = 0
    /\ \E io \in IoFor(env) :
        LET r == ask_question(env, pipeline, db, arg.query, io)
        IN  /\ out' = [op |-> "ask_question", io |-> io, ret |-> r.value]
            /\ exc' = propagated(r)
    /\ UNCHANGED <<env, rag_config, chunker, embedder, db, ck, arg>>

NextSearch == SemanticSearch \/ AskQuestion

SpecSearch == InitSearch /\ [][NextSearch]_vars

(***************************************************************************)
(* generate_answer on context documents handed in by the caller: the       *)
(* environment, the configuration, the question and the documents are      *)
(* drawn first, then the call is made.                                     *)
(***************************************************************************)
MaxContextDocs == 4     \* most context documents handed to generate_answer

ContextDoc(title, content) ==
    [document |-> [id |-> 0, title |-> title, content |-> content,
                   tags |-> KnowledgeTags],
     similarity |-> SentinelScore]

ContextPool ==
    { ContextDoc(<<"T", "1">>, <<"x", "x", " ", "y", "y", ".", " ", "a", "a", " ", "b", "b", ".", " ", "a", "a", " ", "c", "c", " ", "d", "d", " ", "e", "e", " ", "f", "f">>),
      ContextDoc(<<"T", "2">>, <<"x", "x", " ", "y", "y", ".", " ", "a", "a", " ", "b", "b", "!", " ">>),
      ContextDoc(Missing, <<"A", "a", " ", "b", "b", " ", "z", "z">>),
      ContextDoc(<<"T", "4">>, Missing) }

Questions == {<<"a", "a", " ", "b", "b">>, <<"A", "A", " ", "q", "q">>, <<"q", "q">>}

AnswerEnvironments ==
    { [HAS_OPENAI |-> FALSE, libs |-> "sklearn", api_key |-> FALSE],
      [HAS_OPENAI |-> FALSE, libs |-> "sklearn", api_key |-> TRUE],
      [HAS_OPENAI |-> TRUE,  libs |-> "sklearn", api_key |-> FALSE],
      [HAS_OPENAI |-> TRUE,  libs |-> "sklearn", api_key |-> TRUE] }

AnswerConfigs == {new_RAGConfig(2, 1, 50, 2)}

InitAnswer ==
    /\ env \in AnswerEnvironments
    /\ rag_config \in AnswerConfigs
    /\ chunker = new_RAGPipeline(env, rag_config).chunker
    /\ embedder = new_RAGPipeline(env, rag_config).embedder
    /\ db = <<>>
    /\ exc = "none"
    /\ ck = Idle
    /\ out = NoCall
    /\ arg \in [question : Questions,
                context_docs : SeqsUpTo(ContextPool, MaxContextDocs)]

GenerateAnswer ==
    /\ out = NoCall
    /\ "context_docs" \in DOMAIN arg
    /\ \E io \in IoFor(env) :
        /\ ~io.api_ok /\ ~io.query_ok /\ ~io.fallback_ok
        /\ LET r == generate_answer(env, pipeline, arg.question,
                                    arg.context_docs, io.backend_ok)
           IN  /\ out' = [op |-> "generate_answer", io |-> io, ret |-> r.value]
               /\ exc' = propagated(r)
    /\ UNCHANGED <<env, rag_config, chunker, embedder, db, ck, arg>>

NextAnswer == GenerateAnswer

SpecAnswer == InitAnswer /\ [][NextAnswer]_vars

(***************************************************************************)
(* Claims about retrieval.                                                 *)
(***************************************************************************)
\* the embedding of the query of the call recorded in `out`
QueryEmbedding == embed_text(env, embedder, arg.query, out.io.api_ok)

\* the records the candidate query selects
Candidates ==
    {i \in 1..Len(db) : HasTag(db[i], "knowledge-base") /\ HasTag(db[i], "chunk")}

\* the record carries an embedding: its first metadata tag parses and holds
\* a non-empty embedding
FirstMetadataTag(i) ==
    db[i].tags[Min({k \in 1..Len(db[i].tags) : db[i].tags[k].prefix = "metadata:"})]

CarriesEmbedding(i) ==
    /\ \E k \in 1..Len(db[i].tags) : db[i].tags[k].prefix = "metadata:"
    /\ FirstMetadataTag(i).payload.parses
    /\ "embedding" \in DOMAIN FirstMetadataTag(i).payload.value
    /\ FirstMetadataTag(i).payload.value.embedding # <<>>

StoredEmbedding(i) == FirstMetadataTag(i).payload.value.embedding

Similarity(i) == cosine_similarity(env, QueryEmbedding.value, StoredEmbedding(i))

\* the semantic path ran to its end and every embedding was scored
RankingSucceeded ==
    /\ out.op = "semantic_search"
    /\ exc = "none"
    /\ ~out.fell_back
    /\ \A i \in Candidates : CarriesEmbedding(i) => ~Similarity(i).raised

\* the lexical hits of the store for the query, with the sentinel score
LexicalHits ==
    LET hits == SelectSeq(db, LAMBDA doc :
                    HasTag(doc, "knowledge-base") /\ ContainsText(doc, arg.query))
        n == Min({Len(hits), effective_max_results(rag_config, arg.max_results)})
    IN  [k \in 1..n |-> [document |-> hits[k], similarity |-> SentinelScore]]

\* C1: semantic_search never raises and returns a list; when the store
\* raises on every call, no entry of the list is semantically scored.
C1_SearchNeverRaises ==
    out.op = "semantic_search" =>
        /\ exc = "none"
        /\ DOMAIN out.ret = 1..Len(out.ret)
        /\ (~out.io.query_ok /\ ~out.io.fallback_ok) =>
               \A k \in 1..Len(out.ret) : "metadata" \notin DOMAIN out.ret[k]

\* the store failed on both queries while it held a record with an embedding
C1_Witness ==
    /\ out.op = "semantic_search"
    /\ ~out.io.query_ok /\ ~out.io.fallback_ok
    /\ ~QueryEmbedding.raised
    /\ \E i \in Candidates : CarriesEmbedding(i) /\ ContainsText(db[i], arg.query)
    /\ out.fell_back
    /\ out.ret = <<>>

\* C2: ask_question never propagates an exception and returns the four
\* fields answer, sources, context_used, context_docs_count.
C2_AskNeverRaises ==
    out.op = "ask_question" =>
        /\ exc = "none"
        /\ DOMAIN out.ret = {"answer", "sources", "context_used", "context_docs_count"}

C7_FallbackWithoutEmbeddings ==
    ( /\ out.op = "semantic_search"
      /\ exc = "none"
      /\ ~QueryEmbedding.raised
      /\ out.io.query_ok /\ out.io.fallback_ok
      /\ Candidates # {}
      /\ \A i \in Candidates : ~CarriesEmbedding(i) )
        => out.ret = LexicalHits

(***************************************************************************)
(* Claims about answering.                                                 *)
(***************************************************************************)
Answered == out.op = "generate_answer" /\ exc = "none"

\* the extractive fallback produced the answer
FallbackRan ==
    Answered /\ ~(env.HAS_OPENAI /\ env.api_key /\ out.io.backend_ok)

\* the context documents whose content is not blank, and those among them
\* whose content is part of the context: the first ContextPartsLimit
ContentBearing ==
    {i \in 1..Len(arg.context_docs) :
        Strip(get_content(arg.context_docs[i].document)) # <<>>}

IncludedDocs ==
    {i \in ContentBearing :
        Cardinality({j \in ContentBearing : j < i}) < ContextPartsLimit}

\* the trimmed sentences of the context used
ContextSentences ==
    LET pieces == split_sentences(out.ret.context_used)
    IN  {Strip(pieces[i]) : i \in 1..Len(pieces)}

LongSentences == {s \in ContextSentences : Len(s) >= MinSentenceLength}

Overlap(s) == word_overlap(arg.question, s)

\* C8: the context string never exceeds the configured max_context_length.
C8_ContextWithinLimit ==
    Answered => Len(out.ret.context_used) <= rag_config.max_context_length

\* C9: the sources are exactly the titles of the chunks whose content is in
\* the context used.
C9_SourcesAreIncludedTitles ==
    Answered =>
        out.ret.sources =
            {get_title(arg.context_docs[i].document) : i \in IncludedDocs}

\* the sentences of S whose overlap with the question is the largest of S
BestOf(S) ==
    LET overlap == [s \in S |-> Overlap(s)]
    IN  {s \in S : \A t \in S : overlap[t] <= overlap[s]}

Digits == <<"0", "1", "2", "3", "4", "5", "6", "7", "8", "9">>
WordChars ==
    {LowerCase[i] : i \in 1..Len(LowerCase)} \cup {UpperCase[i] : i \in 1..Len(UpperCase)}
        \cup {Digits[i] : i \in 1..Len(Digits)} \cup {"_", "-"}

\* str(n) for n >= 0
RECURSIVE Decimal(_)
Decimal(n) ==
    IF n < 10 THEN <<Digits[n + 1]>>
    ELSE Decimal(n \div 10) \o <<Digits[(n % 10) + 1]>>

\* f"{i:03d}"
RECURSIVE ZeroPad(_, _)
ZeroPad(s, width) == IF Len(s) >= width THEN s ELSE ZeroPad(<<"0">> \o s, width)

\* re.sub(r'[^\w\-_]', '_', title)
safe_title(title) == [i \in 1..Len(title) |-> IF title[i] \in WordChars THEN title[i] ELSE "_"]

knowledge_base_path == <<"/", "k", "n", "o", "w", "l", "e", "d", "g", "e">>

\* f"{self.knowledge_base_path}/{safe_title}/chunk_{i:03d}.md"
chunk_path(title, i) ==
    knowledge_base_path \o <<"/">> \o safe_title(title) \o <<"/", "c", "h", "u", "n", "k", "_">>
        \o ZeroPad(Decimal(i), 3) \o <<".", "m", "d">>

\* "source or 'unknown'"; "" stands for None
source_or_unknown(source) == IF source = "" THEN "unknown" ELSE source

\* the record without "chunk_metadata['embedding'] = embedding"
chunk_record_without_embedding(title, source, content_length, chunk, i, embedding) ==
    [id |-> 0,
     path |-> chunk_path(title, i),
     title |-> title \o <<" ", "-", " ", "C", "h", "u", "n", "k", " ">> \o Decimal(i + 1),
     content |-> chunk.content,
     tags |-> << PlainTag("knowledge-base"), PlainTag("chunk"),
                 SourceTag(source_or_unknown(source)),
                 MetadataTag(json_dumps(
                     [source |-> source_or_unknown(source),
                      content_length |-> content_length,
                      chunk |-> chunk.metadata])) >>]

\* the record ingest_document builds for chunk i (from 0) of the document;
\* the time of ingestion, which the metadata also holds, is left out
chunk_record(title, source, content_length, chunk, i, embedding) ==
    [id |-> 0,
     path |-> chunk_path(title, i),
     title |-> title \o <<" ", "-", " ", "C", "h", "u", "n", "k", " ">> \o Decimal(i + 1),
     content |-> chunk.content,
     tags |-> << PlainTag("knowledge-base"), PlainTag("chunk"),
                 SourceTag(source_or_unknown(source)),
                 MetadataTag(json_dumps(
                     [embedding |-> embedding,
                      source |-> source_or_unknown(source),
                      content_length |-> content_length,
                      chunk |-> chunk.metadata])) >>]

\* the loop of ingest_document stopping at the first chunk that fails
RECURSIVE ingest_chunks_abort(_, _, _, _, _, _, _, _)
ingest_chunks_abort(e, self, document, chunks, i, io, store, done) ==
    IF i >= Len(chunks) THEN [store |-> store, done |-> done]
    ELSE LET chunk     == chunks[i + 1]
             embedding == embed_text(e, self.embedder, chunk.content, io.api_ok)
         IN  IF embedding.raised \/ ~io.insert_ok[i + 1]
             THEN [store |-> store,
                   done |-> [done EXCEPT !.failed = Append(@, i)]]
             ELSE LET stored == store_insert(store,
                                    chunk_record(document.title, document.source,
                                        Len(document.content), chunk, i,
                                        embedding.value))
                  IN  ingest_chunks_abort(e, self, document, chunks, i + 1, io, stored,
                          [done EXCEPT !.chunk_ids = Append(@, last_id(stored))])

\* the loop of ingest_document over the chunks from the i-th (from 0) on:
\* the store and the ids collected so far; a chunk whose embedding or insert
\* raises is reported and skipped
RECURSIVE ingest_chunks(_, _, _, _, _, _, _, _)
ingest_chunks(e, self, document, chunks, i, io, store, done) ==
    IF i >= Len(chunks) THEN [store |-> store, done |-> done]
    ELSE LET chunk     == chunks[i + 1]
             embedding == embed_text(e, self.embedder, chunk.content, io.api_ok)
         IN  IF embedding.raised \/ ~io.insert_ok[i + 1]
             THEN ingest_chunks(e, self, document, chunks, i + 1, io, store,
                      [done EXCEPT !.failed = Append(@, i)])
             ELSE LET stored == store_insert(store,
                                    chunk_record(document.title, document.source,
                                        Len(document.content), chunk, i,
                                        embedding.value))
                  IN  ingest_chunks(e, self, document, chunks, i + 1, io, stored,
                          [done EXCEPT !.chunk_ids = Append(@, last_id(stored))])

\* the body of ingest_document's outer try: len() of a content that is no
\* str raises TypeError before any chunk is made
ingest_body(e, self, store, document, io) ==
    IF document.content = NonText
    THEN [store |-> store, call |-> Raised("TypeError"), failed |-> <<>>]
    ELSE LET r == ingest_chunks(e, self, document,
                      chunk_document(self.chunker, document.content), 0, io, store,
                      [chunk_ids |-> <<>>, failed |-> <<>>])
         IN  [store |-> r.store, call |-> Returned(r.done.chunk_ids),
              failed |-> r.done.failed]

\* ingest_document: the store afterwards, the call's result and the chunks
\* reported as failed; an exception of the body is reported and [] returned
ingest_document(e, self, store, document, io) ==
    LET r == ingest_body(e, self, store, document, io)
    IN  IF r.call.raised THEN [r EXCEPT !.call = Returned(<<>>)] ELSE r

(***************************************************************************)
(* The pipeline over its lifetime: documents are ingested into the store   *)
(* and the knowledge base is searched.                                     *)
(***************************************************************************)
PipelineConfigs == {new_RAGConfig(4, 1, 50, 2)}

PipelineEnvironments ==
    { [HAS_OPENAI |-> FALSE, libs |-> "sklearn", api_key |-> FALSE],
      [HAS_OPENAI |-> TRUE,  libs |-> "sklearn", api_key |-> TRUE],
      [HAS_OPENAI |-> FALSE, libs |-> "none",    api_key |-> FALSE] }

Documents ==
    { [title |-> <<"T", " ", "1">>, source |-> "", content |-> <<"a", "b">>],
      [title |-> <<"T", " ", "1">>, source |-> "docs",
       content |-> <<"a", "b", " ", "c", "d", " ", " ", "e", "f", "g">>],
      [title |-> <<"T", "2">>, source |-> "docs", content |-> NonText] }

\* the chunks the pipeline makes of a document
document_chunks(document) ==
    IF document.content = NonText THEN <<>>
    ELSE chunk_document(pipeline.chunker, document.content)

\* what the embedding backend and the store do during one ingest_document:
\* the backend answers where the openai module is imported, the store
\* accepts or rejects each chunk's insert
IngestOutcomes(e, document) ==
    [api_ok : {e.HAS_OPENAI},
     insert_ok : [1..Len(document_chunks(document)) -> BOOLEAN]]

PipelineQueries == {<<"a", "b">>, <<"e", "f", "g">>}

\* what the embedding backend and the store do during one semantic_search
\* over the ingested chunks: the store's answer to the tag query may fail
SearchOutcomes(e) ==
    {io \in IoFor(e) : io.fallback_ok /\ ~io.backend_ok}

Init ==
    /\ env \in PipelineEnvironments
    /\ rag_config \in PipelineConfigs
    /\ chunker = new_RAGPipeline(env, rag_config).chunker
    /\ embedder = new_RAGPipeline(env, rag_config).embedder
    /\ db = <<>>
    /\ exc = "none"
    /\ ck = Idle
    /\ out = NoCall
    /\ arg = NoArgs

IngestDocument(document, io) ==
    /\ Len(db) < MaxStore
    /\ LET r == ingest_document(env, pipeline, db, document, io)
       IN  /\ db' = r.store
           /\ out' = [op |-> "ingest_document", document |-> document, io |-> io,
                      stored_before |-> Len(db),
                      ret |-> r.call.value, failed |-> r.failed]
           /\ exc' = propagated(r.call)
    /\ UNCHANGED <<env, rag_config, chunker, embedder, ck, arg>>

\* the store after query_with_builder: a query leaves the records as they
\* are, whether it answers or raises
store_after_query(store) == store

\* a semantic_search that files its result in the store
semantic_search_store_caching(store, searched) ==
    store_insert(store, [id |-> 0, path |-> <<>>, title |-> <<>>,
                         content |-> <<>>, tags |-> <<PlainTag("query")>>])

\* the store after semantic_search: the candidates are queried, and the text
\* matches when the call fell back; nothing else of the store is called
semantic_search_store(store, searched) ==
    IF searched.fell_back
    THEN store_after_query(store_after_query(store))
    ELSE store_after_query(store)

\* generate_answer(question): context_docs is None, so the context is what
\* semantic_search(question) returns
generate_answer_searching(e, self, store, question, io) ==
    LET searched == semantic_search(e, self, store, question, 0, io)
    IN  [searched |-> searched,
         call |-> IF searched.call.raised THEN searched.call
                  ELSE generate_answer(e, self, question, searched.call.value,
                                       io.backend_ok)]

StatsLimit == 1000

\* the {} get_knowledge_base_stats returns from its handler
EmptyStats == [empty |-> TRUE]

RECURSIVE content_length(_)
content_length(chunks) ==
    IF chunks = <<>> THEN 0
    ELSE Len(get_content(Head(chunks))) + content_length(Tail(chunks))

\* the most tags a chunk of the list has
MaxTags(chunks) == Max({0} \cup {Len(chunks[i].tags) : i \in 1..Len(chunks)})

\* the sources named by the 'source:' tags of the chunks
tagged_sources(chunks) ==
    {chunks[i].tags[k].name :
         <<i, k>> \in {ik \in (1..Len(chunks)) \X (1..MaxTags(chunks)) :
                          /\ ik[2] <= Len(chunks[ik[1]].tags)
                          /\ chunks[ik[1]].tags[ik[2]].prefix = "source:"}}

\* get_knowledge_base_stats: len() of a content that is no str raises, and
\* every exception ends in {}
get_knowledge_base_stats(self, store, query_ok) ==
    LET results == query_documents(store, {"knowledge-base"}, NoTextFilter,
                                   StatsLimit, query_ok)
        chunks  == results.value
        total   == content_length(chunks)
    IN  IF results.raised THEN Returned(EmptyStats)
        ELSE IF \E i \in 1..Len(chunks) : chunks[i].content = NonText
             THEN Returned(EmptyStats)
        ELSE Returned([total_chunks |-> Len(chunks),
                       unique_sources |-> Cardinality(tagged_sources(chunks)),
                       total_content_length |-> total,
                       average_chunk_size |->
                           IF chunks # <<>> THEN total \div Len(chunks) ELSE 0,
                       sources |-> tagged_sources(chunks)])

Search(query, io) ==
    /\ LET r == semantic_search(env, pipeline, db, query, 0, io)
       IN  /\ out' = [op |-> "semantic_search", query |-> query, io |-> io,
                      fell_back |-> r.fell_back, ret |-> r.call.value]
           /\ exc' = propagated(r.call)
           /\ db' = semantic_search_store(db, r)
    /\ UNCHANGED <<env, rag_config, chunker, embedder, ck, arg>>

Answer(question, io) ==
    /\ LET r == generate_answer_searching(env, pipeline, db, question, io)
       IN  /\ out' = [op |-> "generate_answer", question |-> question, io |-> io,
                      ret |-> r.call.value]
           /\ exc' = propagated(r.call)
           /\ db' = semantic_search_store(db, r.searched)
    /\ UNCHANGED <<env, rag_config, chunker, embedder, ck, arg>>

Stats(query_ok) ==
    /\ LET r == get_knowledge_base_stats(pipeline, db, query_ok)
       IN  /\ out' = [op |-> "get_knowledge_base_stats", query_ok |-> query_ok,
                      ret |-> r.value]
           /\ exc' = propagated(r)
    /\ db' = store_after_query(db)
    /\ UNCHANGED <<env, rag_config, chunker, embedder, ck, arg>>

Ask(question, io) ==
    /\ LET r == ask_question(env, pipeline, db, question, io)
       IN  /\ out' = [op |-> "ask_question", question |-> question, io |-> io,
                      ret |-> r.value]
           /\ exc' = propagated(r)
           /\ db' = semantic_search_store(db,
                        semantic_search(env, pipeline, db, question, 0, io))
    /\ UNCHANGED <<env, rag_config, chunker, embedder, ck, arg>>

Next ==
    \/ \E document \in Documents : \E io \in IngestOutcomes(env, document) :
           IngestDocument(document, io)
    \/ \E query \in PipelineQueries, io \in SearchOutcomes(env) :
           Search(query, io)
    \/ \E question \in PipelineQueries, io \in SearchOutcomes(env) :
           io.query_ok /\ Answer(question, io)
    \/ \E question \in PipelineQueries, io \in SearchOutcomes(env) :
           io.query_ok /\ Ask(question, io)
    \/ \E query_ok \in BOOLEAN :
           Stats(query_ok)

Spec == Init /\ [][Next]_vars

(***************************************************************************)
(* Claims about ingestion                                                  *)
(***************************************************************************)
\* the chunks of the document of the last ingest_document
IngestedChunks == document_chunks(out.document)

\* the embedding of the i-th chunk (from 1) was produced and the store
\* accepted its insert
InsertSucceeded(i) ==
    /\ ~embed_text(env, pipeline.embedder, IngestedChunks[i].content,
                   out.io.api_ok).raised
    /\ out.io.insert_ok[i]

SucceededChunks == {i \in 1..Len(IngestedChunks) : InsertSucceeded(i)}

\* the k-th chunk, in chunk order, whose insert succeeded
KthSucceeded(k) ==
    CHOOSE i \in SucceededChunks :
        Cardinality({j \in SucceededChunks : j <= i}) = k

\* C3: ingest_document never raises; every chunk of the document is
\* attempted, each being either stored or reported as failed, also after an
\* earlier chunk failed; the list returned holds exactly the ids the store
\* gave to the chunks whose insert succeeded, in chunk order, so it is at
\* most as long as the number of chunks.
C3_IngestSkipsFailedChunks ==
    out.op = "ingest_document" =>
        /\ exc = "none"
        /\ \A i \in 1..Len(IngestedChunks) :
               IF InsertSucceeded(i)
               THEN \A k \in 1..Len(out.failed) : out.failed[k] # i - 1
               ELSE \E k \in 1..Len(out.failed) : out.failed[k] = i - 1
        /\ Len(out.ret) = Cardinality(SucceededChunks)
        /\ Len(out.ret) <= Len(IngestedChunks)
        /\ Len(db) = out.stored_before + Len(out.ret)
        /\ \A k \in 1..Len(out.ret) :
               /\ out.ret[k] = db[out.stored_before + k].id
               /\ db[out.stored_before + k].content
                      = IngestedChunks[KthSucceeded(k)].content
               /\ db[out.stored_before + k].path
                      = chunk_path(out.document.title, KthSucceeded(k) - 1)

\* a document of three chunks whose first chunk failed and whose later two
\* were stored
C3_Witness ==
    /\ out.op = "ingest_document"
    /\ Len(IngestedChunks) = 3
    /\ out.failed = <<0>>
    /\ Len(out.ret) = 2
    /\ exc = "none"

(***************************************************************************)
(* _generate_fallback_answer on a context of any shape: the question and   *)
(* the context are drawn first, then the call is made.                     *)
(***************************************************************************)
MaxSegments == 3    \* most segments a context is put together from

ContextSegments ==
    { <<" ", " ">>, <<"\n">>, <<".">>, <<"!", "?">>, <<"x", "x", " ", "y", "y">>, <<"a", "a", " ", "b", "b", " ", "c", "c", " ", "d", "d">>, <<"A", "a", " ", "z", "z", " ", "y", "y", " ", "w", "w", " ", "v", "v">> }

RECURSIVE Concat(_)
Concat(parts) == IF parts = <<>> THEN <<>> ELSE Head(parts) \o Concat(Tail(parts))

Contexts == {Concat(parts) : parts \in SeqsUpTo(ContextSegments, MaxSegments)}

InitFallback ==
    /\ env = DefaultEnv
    /\ rag_config = None
    /\ chunker = None
    /\ embedder = None
    /\ db = <<>>
    /\ exc = "none"
    /\ ck = Idle
    /\ out = NoCall
    /\ arg \in [question : Questions, context : Contexts]

GenerateFallbackAnswer ==
    /\ out = NoCall
    /\ "context" \in DOMAIN arg
    /\ out' = [op |-> "generate_fallback_answer",
               ret |-> generate_fallback_answer(arg.question, arg.context)]
    /\ UNCHANGED <<env, rag_config, chunker, embedder, db, exc, ck, arg>>

NextFallback == GenerateFallbackAnswer

SpecFallback == InitFallback /\ [][NextFallback]_vars

(***************************************************************************)
(* Claims about the extractive fallback                                    *)
(***************************************************************************)
\* the characters of the context that are not whitespace
Visible(text) == {i \in 1..Len(text) : text[i] \notin Whitespace}

\* the sentences of the context: the maximal pieces free of . ! ?
SentencesOf(context) ==
    LET n == Len(context)
        IsEnder(i) == i = 0 \/ i = n + 1 \/ context[i] \in SentenceEnders
    IN  {SubSeq(context, a + 1, b - 1) :
             <<a, b>> \in {ab \in (0..n + 1) \X (0..n + 1) :
                               /\ ab[1] < ab[2]
                               /\ IsEnder(ab[1]) /\ IsEnder(ab[2])
                               /\ \A i \in (ab[1] + 1)..(ab[2] - 1) :
                                      ~IsEnder(i)}}

\* the words of a text: its maximal pieces free of whitespace, in lower case
WordsOf(text) ==
    LET n == Len(text)
        IsGap(i) == i = 0 \/ i = n + 1 \/ text[i] \in Whitespace
    IN  {Lower(SubSeq(text, a + 1, b - 1)) :
             <<a, b>> \in {ab \in (0..n + 1) \X (0..n + 1) :
                               /\ ab[1] + 1 < ab[2]
                               /\ IsGap(ab[1]) /\ IsGap(ab[2])
                               /\ \A i \in (ab[1] + 1)..(ab[2] - 1) :
                                      ~IsGap(i)}}

SharesWord(sentence, question) == WordsOf(sentence) \cap WordsOf(question) # {}

\* C11: the extractive fallback returns the insufficient-information message
\* exactly when the context is empty or whitespace only, and the
\* related-but-unanswerable message when the context is not empty and no
\* sentence of it shares a word with the question.
C11_FixedMessages ==
    out.op = "generate_fallback_answer" =>
        /\ out.ret = InsufficientMessage <=> Visible(arg.context) = {}
        /\ ( /\ Visible(arg.context) # {}
             /\ \A s \in SentencesOf(arg.context) : ~SharesWord(s, arg.question) )
               => out.ret = UnanswerableMessage

\* a context of whitespace only got the insufficient-information message
C11_Witness ==
    /\ out.op = "generate_fallback_answer"
    /\ arg.context # <<>>
    /\ Visible(arg.context) = {}
    /\ out.ret = InsufficientMessage

\* a context with text, none of it sharing a word with the question
C11_WitnessUnanswerable ==
    /\ out.op = "generate_fallback_answer"
    /\ \E s \in SentencesOf(arg.context) : Len(Strip(s)) >= MinSentenceLength
    /\ \A s \in SentencesOf(arg.context) : ~SharesWord(s, arg.question)
    /\ out.ret = UnanswerableMessage

(***************************************************************************)
(* Claims about the chunks of one document                                 *)
(***************************************************************************)
\* chunk_document has returned under a configuration with
\* 0 <= overlap < chunk_size
ChunkedUnderValidConfig ==
    /\ ck.pc = "done"
    /\ 0 <= chunker.overlap
    /\ chunker.overlap < chunker.chunk_size

\* C12: every chunk chunk_document returns has chunk_index < chunk_count,
\* for any text and any configuration with 0 <= overlap < chunk_size.
C12_IndexBelowCount ==
    ChunkedUnderValidConfig =>
        \A i \in 1..Len(ck.ret) : ck.ret[i].chunk_index < ck.ret[i].chunk_count

(***************************************************************************)
(* chunk_document on texts long enough for sentence boundaries to matter:  *)
(* the chunker and the text are drawn first, then the call is made.        *)
(***************************************************************************)
MaxParts == 4       \* most parts a text is put together from

TextParts ==
    { <<"a", "a", "a", "a", "a", "a", "a", "a", "a", "a", "a", "a", "a">>, <<"a", "a", "a">>, <<"a">>, <<".", " ">>, <<"!">>, <<" ">> }

SentenceTexts == {Concat(parts) : parts \in SeqsUpTo(TextParts, MaxParts)}

\* chunk sizes from which a sentence boundary can shorten a window, with
\* overlaps below them
SentenceChunkers ==
    { new_DocumentChunker(16, 0), new_DocumentChunker(16, 3),
      new_DocumentChunker(16, 14), new_DocumentChunker(16, 15),
      new_DocumentChunker(20, 0), new_DocumentChunker(21, 20) }

InitSentence ==
    /\ env = DefaultEnv
    /\ rag_config = None
    /\ chunker \in SentenceChunkers
    /\ embedder = None
    /\ db = <<>>
    /\ exc = "none"
    /\ ck = Idle
    /\ out = NoCall
    /\ arg \in [raw : SentenceTexts]

ChunkDocument ==
    /\ out = NoCall
    /\ DOMAIN arg = {"raw"}
    /\ out' = [op |-> "chunk_document", ret |-> chunk_document(chunker, arg.raw)]
    /\ UNCHANGED <<env, rag_config, chunker, embedder, db, exc, ck, arg>>

NextSentence == ChunkDocument

SpecSentence == InitSentence /\ [][NextSentence]_vars

\* chunk_document has returned more than one chunk under a configuration
\* with 0 <= overlap < chunk_size
ReturnedChunks ==
    /\ out.op = "chunk_document"
    /\ out.ret # Diverged
    /\ 0 <= chunker.overlap /\ chunker.overlap < chunker.chunk_size

\* C13: the start_char and end_char recorded on the chunks of one document
\* never decrease from a chunk to the next, for any text and any
\* configuration with 0 <= overlap < chunk_size.
C13_OffsetsNonDecreasing ==
    (ReturnedChunks /\ Len(clean_content(arg.raw)) > chunker.chunk_size) =>
        \A i \in 1..(Len(out.ret) - 1) :
            /\ out.ret[i].metadata.start_char <= out.ret[i + 1].metadata.start_char
            /\ out.ret[i].metadata.end_char <= out.ret[i + 1].metadata.end_char

\* three chunks were returned, the first one ended at a sentence boundary
\* before the end of its window
C13_Witness ==
    /\ ReturnedChunks
    /\ Len(out.ret) >= 3
    /\ out.ret[1].metadata.end_char < chunker.chunk_size
    /\ out.ret[2].metadata.start_char > 0

\* the loop of chunk_document did not end
C13_Diverges ==
    /\ out.op = "chunk_document"
    /\ out.ret = Diverged

\* the chunks from the i-th on, each without its first `overlap` characters
RECURSIVE NonOverlapping(_, _, _)
NonOverlapping(chunks, i, overlap) ==
    IF i > Len(chunks) THEN <<>>
    ELSE SubSeq(chunks[i].content, overlap + 1, Len(chunks[i].content))
             \o NonOverlapping(chunks, i + 1, overlap)

\* the first chunk followed by the non-overlapping portions of the later ones
Reconstructed(chunks, overlap) ==
    IF chunks = <<>> THEN <<>>
    ELSE chunks[1].content \o NonOverlapping(chunks, 2, overlap)

\* C14: the first chunk followed by each later chunk's content after its
\* first `overlap` characters is the normalized text.
C14_RoundTrip ==
    ChunkedUnderValidConfig =>
        Reconstructed(ck.ret, chunker.overlap) = clean_content(arg.raw)

\* C15: every chunk chunk_document returns has a content that is not empty
\* after trimming, for any text, the empty and the blank ones included.
C15_NoEmptyChunk ==
    ck.pc = "done" =>
        \A i \in 1..Len(ck.ret) : Strip(ck.ret[i].content) # <<>>

(***************************************************************************)
(* The scenario of a 2500-character document under the default chunk size  *)
(* 1000 and overlap 100: the places of the sentence delimiters are drawn   *)
(* first, then chunk_document is called.                                   *)
(***************************************************************************)
MaxDelimiters == 2      \* most sentence delimiters in the document

\* offsets at which a ". " may stand
DelimiterOffsets ==
    {300, 801, 850, 998, 1504, 1600, 1700, 1898, 2200, 2300, 2400, 2497}

\* the document of 2500 characters with ". " at the given offsets and
\* letters elsewhere
ScenarioText(offsets) ==
    [i \in 1..2500 |-> IF (i - 1) \in offsets THEN "."
                       ELSE IF (i - 2) \in offsets THEN " "
                       ELSE "a"]

ScenarioTexts ==
    {ScenarioText(offsets) :
         offsets \in {P \in SUBSET DelimiterOffsets : Cardinality(P) <= MaxDelimiters}}

InitScenario ==
    /\ env = DefaultEnv
    /\ rag_config = None
    /\ chunker = new_DocumentChunker(1000, 100)
    /\ embedder = None
    /\ db = <<>>
    /\ exc = "none"
    /\ ck = Idle
    /\ out = NoCall
    /\ arg \in [raw : ScenarioTexts]

NextScenario == ChunkDocument

SpecScenario == InitScenario /\ [][NextScenario]_vars

\* C16: a document of 2500 characters chunked with chunk size 1000 and
\* overlap 100 gives exactly 3 chunks with chunk_count 3 on each, whatever
\* sentence delimiters it contains.
C16_ThreeChunks ==
    ( /\ out.op = "chunk_document"
      /\ chunker = new_DocumentChunker(1000, 100)
      /\ Len(clean_content(arg.raw)) = 2500 ) =>
        /\ Len(out.ret) = 3
        /\ \A i \in 1..Len(out.ret) : out.ret[i].chunk_count = 3

(***************************************************************************)
(* EmbeddingProvider: batches                                              *)
(***************************************************************************)
\* the order of two words as Python orders str, for words of letters
RECURSIVE WordBefore(_, _)
WordBefore(a, b) ==
    IF a = <<>> THEN b # <<>>
    ELSE IF b = <<>> THEN FALSE
    ELSE IF CharCode(Head(a)) # CharCode(Head(b))
         THEN CharCode(Head(a)) < CharCode(Head(b))
         ELSE WordBefore(Tail(a), Tail(b))

\* the words of a set in ascending order
RECURSIVE SortedWords(_)
SortedWords(W) ==
    IF W = {} THEN <<>>
    ELSE LET first == CHOOSE w \in W : \A v \in W \ {w} : WordBefore(w, v)
         IN  <<first>> \o SortedWords(W \ {first})

\* the vocabulary vectorizer.fit learns from a batch: its terms in order
fit_vocabulary(texts) ==
    SortedWords(UNION {WordSet(texts[i]) : i \in 1..Len(texts)})

\* vectorizer.transform(texts).toarray().tolist()
tfidf_transform_batch(self, texts) ==
    [i \in 1..Len(texts) |-> tfidf_transform(self, texts[i])]

\* _tfidf_embed_batch: the provider afterwards and the call's result;
\* fit_transform raises ValueError on a batch without any term
tfidf_embed_batch(self, texts) ==
    IF ~self.is_fitted
    THEN LET vocabulary == fit_vocabulary(texts)
             fitted == [self EXCEPT !.is_fitted = TRUE, !.vocabulary = vocabulary]
         IN  IF vocabulary = <<>>
             THEN [self |-> self, call |-> Raised("ValueError")]
             ELSE [self |-> fitted,
                   call |-> Returned(tfidf_transform_batch(fitted, texts))]
    ELSE [self |-> self, call |-> Returned(tfidf_transform_batch(self, texts))]

\* [self.embed_text(text) for text in texts]: the first call that raises
\* ends the comprehension
RECURSIVE embed_each(_, _, _, _)
embed_each(e, self, texts, api_ok) ==
    IF texts = <<>> THEN Returned(<<>>)
    ELSE LET first == embed_text(e, self, Head(texts), api_ok)
             rest  == embed_each(e, self, Tail(texts), api_ok)
         IN  IF first.raised THEN first
             ELSE IF rest.raised THEN rest
             ELSE Returned(<<first.value>> \o rest.value)

\* embed_texts
embed_texts(e, self, texts, api_ok) ==
    IF self.provider = "tfidf" /\ HAS_SKLEARN(e)
    THEN tfidf_embed_batch(self, texts)
    ELSE [self |-> self, call |-> embed_each(e, self, texts, api_ok)]

(***************************************************************************)
(* An EmbeddingProvider over its lifetime: it is constructed for a         *)
(* provider in some environment, then single texts and batches are         *)
(* embedded.                                                               *)
(***************************************************************************)
MaxBatch == 2       \* most texts in a batch

Providers == {"openai", "tfidf"}

EmbedTextsPool == { <<>>, <<"a", "a", " ", "b", "b">>, <<"C", "c">> }

Batches == SeqsUpTo(EmbedTextsPool, MaxBatch)

\* the remote call can succeed only where the openai module is imported
ApiOutcomes(e) == {ok \in BOOLEAN : ok => e.HAS_OPENAI}

InitEmbed ==
    /\ env \in Environments
    /\ rag_config = None
    /\ chunker = None
    /\ embedder \in {new_EmbeddingProvider(env, provider) : provider \in Providers}
    /\ db = <<>>
    /\ exc = "none"
    /\ ck = Idle
    /\ out = NoCall
    /\ arg = NoArgs

\* what the earlier calls on the instance leave to remember: whether
\* embed_texts was called, whether a call of it returned, and the lengths of
\* the vectors returned so far
NoHistory == [batch_called |-> FALSE, batch_returned |-> FALSE, lengths |-> {}]

History == IF out = NoCall THEN NoHistory ELSE out.history

EmbedText(text, api_ok) ==
    /\ LET r == embed_text(env, embedder, text, api_ok)
       IN  /\ out' = [op |-> "embed_text", text |-> text, api_ok |-> api_ok,
                      ret |-> r.value,
                      history |->
                          [History EXCEPT !.lengths =
                               IF r.raised THEN @ ELSE @ \cup {Len(r.value)}]]
           /\ exc' = propagated(r)
    /\ UNCHANGED <<env, rag_config, chunker, embedder, db, ck, arg>>

EmbedTexts(texts, api_ok) ==
    /\ LET r == embed_texts(env, embedder, texts, api_ok)
       IN  /\ embedder' = r.self
           /\ out' = [op |-> "embed_texts", texts |-> texts, api_ok |-> api_ok,
                      fitted_before |-> embedder.is_fitted,
                      vocabulary_before |-> embedder.vocabulary,
                      ret |-> r.call.value,
                      history |->
                          [batch_called |-> TRUE,
                           batch_returned |->
                               History.batch_returned \/ ~r.call.raised,
                           lengths |->
                               IF r.call.raised THEN History.lengths
                               ELSE History.lengths \cup
                                    {Len(r.call.value[i]) :
                                         i \in 1..Len(r.call.value)}]]
           /\ exc' = propagated(r.call)
    /\ UNCHANGED <<env, rag_config, chunker, db, ck, arg>>

NextEmbed ==
    \/ \E text \in EmbedTextsPool, api_ok \in ApiOutcomes(env) :
           EmbedText(text, api_ok)
    \/ \E texts \in Batches, api_ok \in ApiOutcomes(env) :
           EmbedTexts(texts, api_ok)

SpecEmbed == InitEmbed /\ [][NextEmbed]_vars

(***************************************************************************)
(* Claims about the embedding provider                                     *)
(***************************************************************************)
\* the provider takes the tfidf branch
LocalStatistical == embedder.provider = "tfidf" /\ HAS_SKLEARN(env)

\* the terms of a batch
TermsOf(texts) == UNION {WordsOf(texts[i]) : i \in 1..Len(texts)}

FittedTerms == {embedder.vocabulary[i] : i \in 1..Len(embedder.vocabulary)}

\* C17: on a tfidf provider a batch embed fits the vectorizer on its batch
\* also when an earlier batch was fitted: after a second embed_texts on a
\* different batch, the statistics later calls use are the second batch's.
C17_LastFitWins ==
    ( /\ LocalStatistical
      /\ out.op = "embed_texts"
      /\ exc = "none"
      /\ out.fitted_before
      /\ TermsOf(out.texts) # {} ) =>
        FittedTerms = TermsOf(out.texts)

\* the provider takes the openai branch
RemoteService == embedder.provider = "openai" /\ env.HAS_OPENAI

\* C18: in the remote-service variant, when the remote call fails,
\* embed_text does not raise and returns the deterministic variant's vector
\* for the text, whichever numeric libraries are imported.
C18_RemoteFailureFallsBack ==
    ( /\ RemoteService
      /\ out.op = "embed_text"
      /\ ~out.api_ok ) =>
        /\ exc = "none"
        /\ out.ret \in {SeededVector(Hash(out.text), EmbedDim), ZeroVector(EmbedDim)}

(***************************************************************************)
(* Claims about the records ingestion leaves in the store                  *)
(***************************************************************************)
\* the source named by the record's source tag
SourceOf(i) ==
    {db[i].tags[k].name : k \in {j \in 1..Len(db[i].tags) :
                                    db[i].tags[j].prefix = "source:"}}

\* the embedding ingest_document computed for the k-th chunk it stored in
\* its last call
IngestedEmbedding(k) ==
    embed_text(env, pipeline.embedder, IngestedChunks[KthSucceeded(k)].content,
               out.io.api_ok).value

\* what the loop of semantic_search makes of the i-th record when the query
\* has the given embedding
Scored(i, query_embedding) == score_chunk(env, query_embedding, db[i])

\* C19: every record ingest_document stored carries the tags knowledge-base
\* and chunk, a source tag and a metadata tag with an embedding, so that
\* semantic_search selects it as a candidate; the record of a chunk carries
\* the document's source, and the search recovers from it exactly the
\* embedding computed at ingestion.
C19_EmbeddingTravelsWithChunk ==
    /\ \A i \in 1..Len(db) :
           /\ i \in Candidates
           /\ SourceOf(i) \in {{"unknown"}, {"docs"}}
           /\ CarriesEmbedding(i)
    /\ out.op = "ingest_document" =>
           \A k \in 1..Len(out.ret) :
               LET i == out.stored_before + k
               IN  /\ SourceOf(i) = {source_or_unknown(out.document.source)}
                   /\ StoredEmbedding(i) = IngestedEmbedding(k)
                   /\ Len(Scored(i, IngestedEmbedding(k))) = 1
                   /\ Scored(i, IngestedEmbedding(k))[1].metadata.embedding
                          = IngestedEmbedding(k)

\* after two ingests under different sources a search ranked a stored chunk
C19_Witness ==
    /\ \E i, j \in 1..Len(db) : SourceOf(i) = {"unknown"} /\ SourceOf(j) = {"docs"}
    /\ out.op = "semantic_search"
    /\ ~out.fell_back
    /\ \E k \in 1..Len(out.ret) :
           /\ "metadata" \in DOMAIN out.ret[k]
           /\ out.ret[k].metadata.embedding = StoredEmbedding(out.ret[k].document.id)

(***************************************************************************)
(* Claims about the reads of the store                                     *)
(***************************************************************************)
ReadOperations == {"semantic_search", "generate_answer", "get_knowledge_base_stats"}

\* C20: a step of semantic_search (its lexical fallback included), of
\* generate_answer or of get_knowledge_base_stats, wherever it falls among
\* the ingestions, leaves the records of the store as they were: none is
\* inserted, changed or deleted.
C20_ReadsLeaveStore ==
    [][out'.op \in ReadOperations => db' = db]_vars

\* statistics were taken of a store holding ingested chunks of two sources,
\* after a search fell back to the text query
C20_Witness ==
    /\ out.op = "get_knowledge_base_stats"
    /\ out.ret # EmptyStats
    /\ out.ret.total_chunks = Len(db)
    /\ out.ret.sources = {"unknown", "docs"}

(***************************************************************************)
(* Termination of chunk_document                                           *)
(***************************************************************************)
\* C21: under every configuration with 0 <= overlap < chunk_size and for
\* every text chunk_document terminates: its loop does not run forever.
C21_Terminates ==
    ( /\ out.op = "chunk_document"
      /\ 0 <= chunker.overlap
      /\ chunker.overlap < chunker.chunk_size ) => out.ret # Diverged

(***************************************************************************)
(* The place of the cut                                                    *)
(***************************************************************************)
\* a sentence-ending delimiter stands at offset p of the text
DelimiterAt(text, p) ==
    \E i \in 1..Len(sentence_endings) :
        Slice(text, p, p + 2) = sentence_endings[i]

\* the offsets of the delimiters that lie in the last 20% of the window
TrailingDelimiters(window) ==
    {p \in 0..(Len(window) - 2) :
         DelimiterAt(window, p) /\ 5 * p >= 4 * Len(window)}

\* C22: a window that does not reach the end of the text is cut immediately
\* after the rightmost sentence-ending delimiter lying in its trailing 20%,
\* and exactly chunk_size characters after its start when there is none;
\* the final window is never shortened.
C22_CutAfterTrailingDelimiter ==
    (ReturnedChunks /\ Len(clean_content(arg.raw)) > chunker.chunk_size) =>
        \A i \in 1..Len(out.ret) :
            LET content == clean_content(arg.raw)
                start   == out.ret[i].metadata.start_char
                end     == out.ret[i].metadata.end_char
                window  == Slice(content, start, start + chunker.chunk_size)
                found   == TrailingDelimiters(window)
            IN  IF start + chunker.chunk_size < Len(content) /\ found # {}
                THEN end = start + Max(found) + 2
                ELSE end = start + chunker.chunk_size

(***************************************************************************)
(* Overlap and size of the chunks                                          *)
(***************************************************************************)
\* C23: of every two consecutive chunks returned for one document the later
\* one starts at the earlier one's end offset minus overlap.
C23_ConsecutiveChunksOverlap ==
    ChunkedUnderValidConfig =>
        \A i \in 1..(Len(ck.ret) - 1) :
            ck.ret[i + 1].metadata.start_char
                = ck.ret[i].metadata.end_char - chunker.overlap

\* C24: every chunk chunk_document returns for a text longer than chunk_size
\* has a content of at most chunk_size characters, whether its cut was moved
\* to a sentence boundary or not.
C24_ChunkWithinSize ==
    ( /\ out.op = "chunk_document"
      /\ out.ret # Diverged
      /\ Len(clean_content(arg.raw)) > chunker.chunk_size ) =>
        \A i \in 1..Len(out.ret) : Len(out.ret[i].content) <= chunker.chunk_size

\* a text longer than chunk_size came back with a chunk whose cut was moved
\* to a sentence boundary and a chunk that fills its window
C24_Witness ==
    /\ out.op = "chunk_document"
    /\ out.ret # Diverged
    /\ Len(clean_content(arg.raw)) > chunker.chunk_size
    /\ \E i \in 1..Len(out.ret) :
           /\ out.ret[i].metadata.end_char < Len(clean_content(arg.raw))
           /\ out.ret[i].metadata.end_char
                  < out.ret[i].metadata.start_char + chunker.chunk_size
    /\ \E i \in 1..Len(out.ret) : Len(out.ret[i].content) = chunker.chunk_size

(***************************************************************************)
(* _clean_content on its own: a raw text is drawn, then normalized.        *)
(***************************************************************************)
MaxRawLen == 5      \* longest raw text handed to _clean_content

RawAlphabet == {"a", " ", "\n", "NUL"}

InitClean ==
    /\ env = DefaultEnv
    /\ rag_config = None
    /\ chunker = new_DocumentChunker(1000, 100)
    /\ embedder = None
    /\ db = <<>>
    /\ exc = "none"
    /\ ck = Idle
    /\ out = NoCall
    /\ arg \in [text : StringsUpTo(RawAlphabet, MaxRawLen)]

CleanContent ==
    /\ out = NoCall
    /\ DOMAIN arg = {"text"}
    /\ out' = [op |-> "_clean_content", ret |-> clean_content(arg.text)]
    /\ UNCHANGED <<env, rag_config, chunker, embedder, db, exc, ck, arg>>

NextClean == CleanContent

SpecClean == InitClean /\ [][NextClean]_vars

\* C25: the normalized text holds no control character, no two whitespace
\* characters in a row and no whitespace at either end, and normalizing it
\* again returns it unchanged.
C25_Normalized ==
    out.op = "_clean_content" =>
        LET text == out.ret
        IN  /\ \A i \in 1..Len(text) : text[i] \notin ControlChars
            /\ \A i \in 1..(Len(text) - 1) :
                   ~(text[i] \in Whitespace /\ text[i + 1] \in Whitespace)
            /\ text # <<>> =>
                   (text[1] \notin Whitespace /\ text[Len(text)] \notin Whitespace)
            /\ clean_content(text) = text

(***************************************************************************)
(* Claims about an EmbeddingProvider over its lifetime                     *)
(***************************************************************************)
\* embed_text answered with the deterministic variant's vector for its text
DeterministicAnswer == out.ret = SeededVector(Hash(out.text), EmbedDim)

\* embed_text answered with the fitted vectorizer's vector for its text
FittedAnswer == out.ret = tfidf_transform(embedder, out.text)

\* C26 as stated: on a tfidf provider embed_text returns the deterministic
\* variant's vector as long as no embed_texts call was made on the instance,
\* and uses the fitted vectorizer from the first embed_texts call onward.
C26_FittedFromFirstBatchCall ==
    (LocalStatistical /\ out.op = "embed_text") =>
        IF out.history.batch_called THEN FittedAnswer ELSE DeterministicAnswer

\* C26, amended: on a tfidf provider embed_text returns the deterministic
\* variant's vector as long as no embed_texts call has returned on the
\* instance, and uses the fitted vectorizer from the first embed_texts call
\* that returns onward.
C26_FittedFromFirstBatchReturn ==
    (LocalStatistical /\ out.op = "embed_text") =>
        /\ exc = "none"
        /\ IF out.history.batch_returned THEN FittedAnswer ELSE DeterministicAnswer

\* embed_text was served by the fitted vectorizer after a batch, with a
\* vector that is not the deterministic variant's
C26_Witness ==
    /\ LocalStatistical
    /\ out.op = "embed_text"
    /\ out.history.batch_returned
    /\ FittedAnswer
    /\ ~DeterministicAnswer

\* embed_text was served by the deterministic variant after an embed_texts
\* call that raised
C26_WitnessFailedBatch ==
    /\ LocalStatistical
    /\ out.op = "embed_text"
    /\ out.history.batch_called
    /\ ~out.history.batch_returned
    /\ DeterministicAnswer

\* C27: all vectors one EmbeddingProvider instance returns over its lifetime
\* have the same length, across embed_text and embed_texts and whichever
\* backend served the call.
C27_OneVectorLength ==
    out # NoCall => Cardinality(out.history.lengths) <= 1

(***************************************************************************)
(* Claims about the degraded paths of retrieval and answering              *)
(***************************************************************************)
\* what the store gives for the lexical query of the fallback: its hits
\* with the sentinel score, nothing when that query raises as well
StoreLexicalHits == IF out.io.fallback_ok THEN LexicalHits ELSE <<>>

\* an entry of a result that carries a semantic score
SemanticEntry(entry) == "metadata" \in DOMAIN entry

\* C28: when computing the query embedding or the candidate query raises,
\* semantic_search returns exactly the store's lexical hits (records tagged
\* knowledge-base that contain the query, at most max_results), each with
\* the sentinel similarity; no result holds semantic and sentinel scores
\* together.
C28_FailureGivesLexicalHits ==
    out.op = "semantic_search" =>
        /\ (QueryEmbedding.raised \/ ~out.io.query_ok) =>
               /\ exc = "none"
               /\ out.ret = StoreLexicalHits
               /\ \A k \in 1..Len(out.ret) :
                      out.ret[k].similarity = SentinelScore
        /\ \/ \A k \in 1..Len(out.ret) : SemanticEntry(out.ret[k])
           \/ \A k \in 1..Len(out.ret) :
                  /\ ~SemanticEntry(out.ret[k])
                  /\ out.ret[k].similarity = SentinelScore

\* the candidate query raised over a store holding a record with an
\* embedding, and the lexical hits came back with the sentinel score
C28_Witness ==
    /\ out.op = "semantic_search"
    /\ ~out.io.query_ok
    /\ out.io.fallback_ok
    /\ ~QueryEmbedding.raised
    /\ \E i \in Candidates : CarriesEmbedding(i)
    /\ Len(out.ret) >= 1
    /\ out.ret = LexicalHits

\* computing the query embedding raised and the lexical hits came back
C28_WitnessEmbeddingRaised ==
    /\ out.op = "semantic_search"
    /\ QueryEmbedding.raised
    /\ out.io.query_ok
    /\ Len(out.ret) >= 1
    /\ out.ret = LexicalHits

\* a generative backend is configured: the openai module is imported and
\* OPENAI_API_KEY is set
BackendConfigured == env.HAS_OPENAI /\ env.api_key

\* what the extractive fallback makes of the question and the context used
ExtractiveAnswer == generate_fallback_answer(arg.question, out.ret.context_used)

\* C29: when the generative backend is configured and its call fails,
\* generate_answer does not raise and returns the answer of the extractive
\* fallback for the same question and context; without a configured backend
\* the extractive fallback answers directly.
C29_BackendFailureFallsBack ==
    ( /\ out.op = "generate_answer"
      /\ ~(BackendConfigured /\ out.io.backend_ok) ) =>
        /\ exc = "none"
        /\ out.ret.answer = ExtractiveAnswer

\* the call of a configured backend failed and the answer is a sentence the
\* extractive fallback picked from the context
C29_Witness ==
    /\ out.op = "generate_answer"
    /\ BackendConfigured
    /\ ~out.io.backend_ok
    /\ exc = "none"
    /\ out.ret.answer = ExtractiveAnswer
    /\ out.ret.answer \notin {InsufficientMessage, UnanswerableMessage,
                              Strip(BackendAnswer)}

(***************************************************************************)
(* Claims about the embeddings of a pipeline on the tfidf provider         *)
(***************************************************************************)
\* the deterministic variant's vector for a text
DeterministicVector(text) == SeededVector(Hash(text), EmbedDim)

\* C30: in a pipeline on the tfidf provider no sequence of ingest_document,
\* semantic_search and ask_question calls fits the vectorizer: every stored
\* chunk embedding and every query embedding is the deterministic variant's
\* vector of its text, however many documents were ingested.
C30_PipelineNeverFits ==
    LocalStatistical =>
        /\ ~embedder.is_fitted
        /\ \A i \in 1..Len(db) :
               StoredEmbedding(i) = DeterministicVector(db[i].content)
        /\ (out.op = "semantic_search" /\ ~out.fell_back) =>
               \A k \in 1..Len(out.ret) :
                   out.ret[k].similarity =
                       cosine_similarity(env, DeterministicVector(out.query),
                                         out.ret[k].metadata.embedding).value

\* after ingests of two documents and on the tfidf provider a search ranked
\* the stored chunks against the query
C30_Witness ==
    /\ LocalStatistical
    /\ \E i, j \in 1..Len(db) : SourceOf(i) = {"unknown"} /\ SourceOf(j) = {"docs"}
    /\ out.op = "semantic_search"
    /\ ~out.fell_back
    /\ Len(out.ret) >= 2
    /\ ~embedder.is_fitted

====
